---- MODULE Spec2Model ----
(***************************************************************************)
(* Model of src/app.py: the POST /historia endpoint (make_historia) and    *)
(* the story generator (criar_historia) that calls the Gemini API.         *)
(*                                                                         *)
(* JSON / Python values are tagged records so that values of different     *)
(* Python types can be compared:                                           *)
(*   field value  [kind, lit, items]          (a value nested in an object)*)
(*   value        [kind, lit, items, fields]  (a top-level value)          *)
(* kind is the JSON type ("absent" marks a key that is not in the object), *)
(* lit the literal of a scalar, items the elements of a list and fields    *)
(* the members of an object.                                               *)
(***************************************************************************)
EXTENDS Integers, Sequences, FiniteSets, TLC

(* ------------------------------ bounds --------------------------------- *)
\* requests that can be in flight together
NumRequests == 2
\* longest 'detalhes' list a client sends
MaxDetalhes == 3
\* most candidates in one upstream reply
MaxCandidates == 2
\* most parts in one candidate's content
MaxParts == 2

Requests == 1..NumRequests

(* ------------------------------ values --------------------------------- *)
Keys == {"detalhes", "outro", "titulo", "conteudo", "error", "extra"}

V(k, l, it) == [kind |-> k, lit |-> l, items |-> it]
Absent == V("absent", "", <<>>)
NullV == V("null", "null", <<>>)
NumV(l) == V("number", l, <<>>)
StrV(l) == V("string", l, <<>>)
BoolV(l) == V("bool", l, <<>>)
ListV(it) == V("list", "", it)
ObjV == V("object", "", <<>>)

NoFields == [k \in Keys |-> Absent]
J(v, f) == [kind |-> v.kind, lit |-> v.lit, items |-> v.items, fields |-> f]
Scalar(v) == J(v, NoFields)
Obj(f) == J(ObjV, f)
\* Python None, which is also what JSON null parses to
None == Scalar(NullV)

HasKey(d, k) == d.fields[k].kind # "absent"
NumKeys(d) == Cardinality({k \in Keys : HasKey(d, k)})

\* Python truth value (bool(x)) of a parsed JSON value
Truthy(x) ==
    CASE x.kind = "null" -> FALSE
      [] x.kind = "number" -> x.lit # "0"
      [] x.kind = "string" -> x.lit # ""
      [] x.kind = "bool" -> x.lit = "true"
      [] x.kind = "list" -> x.items # <<>>
      [] x.kind = "object" -> NumKeys(x) > 0
      [] OTHER -> FALSE

(* ---------------------------- exceptions ------------------------------- *)
Exc(t, m) == [type |-> t, msg |-> m]
NoExc == Exc("", "")
\* the outcome of an expression: the value it returns, or the exception it raises
Returns(v) == [exc |-> NoExc, value |-> v]
Raises(e) == [exc |-> e, value |-> None]
Raised(r) == r.exc # NoExc

\* isinstance(x, dict), line 115 and line 91
IsDict(x) == x.kind = "object"

\* isinstance(detalhes, list), line 120
IsList_NoCheck(x) == TRUE
IsList(x) == x.kind = "list"

\* len(x): a TypeError for None, numbers and booleans
PyLen(x) ==
    CASE x.kind \in {"null", "number", "bool"} ->
            [exc |-> Exc("TypeError", "object has no len()"), n |-> 0]
      [] x.kind = "string" -> [exc |-> NoExc, n |-> Len(x.lit)]
      [] OTHER -> [exc |-> NoExc, n |-> Len(x.items)]

\* x[i] for an index known to be in range (i counts from 0)
PyIndex(x, i) == IF x.kind = "string" THEN SubSeq(x.lit, i + 1, i + 1) ELSE x.items[i + 1]


(* --------------------------- request bodies ---------------------------- *)
\* A request body as Flask sees it: its Content-Type is JSON or not, its text
\* is well-formed JSON or not, and the value the text denotes.
RawBody(mime, wf, v) == [json_mime |-> mime, wellformed |-> wf, value |-> v]

Elem(i) == CASE i = 1 -> "T" [] i = 2 -> "P" [] OTHER -> "X"
DetalhesOfLen(n) == ListV([i \in 1..n |-> Elem(i)])

DetalhesValues ==
    {Absent, NullV, NumV("5"), StrV(""), StrV("ab"), ObjV}
        \cup {DetalhesOfLen(n) : n \in 0..MaxDetalhes}
OutroValues == {Absent, NumV("1")}

ObjectBody(d, o) == Obj([NoFields EXCEPT !["detalhes"] = d, !["outro"] = o])

NonObjectValues ==
    {None, Scalar(NumV("0")), Scalar(NumV("5")), Scalar(StrV("")), Scalar(StrV("x")),
     Scalar(BoolV("true")), Scalar(BoolV("false")),
     Scalar(ListV(<<>>)), Scalar(ListV(<<"1">>))}
ObjectValues == {ObjectBody(d, o) : d \in DetalhesValues, o \in OutroValues}

MalformedBody == RawBody(TRUE, FALSE, None)
WrongMimeBody == RawBody(FALSE, TRUE, ObjectBody(DetalhesOfLen(2), Absent))

Bodies ==
    {MalformedBody, WrongMimeBody}
        \cup {RawBody(TRUE, TRUE, v) : v \in NonObjectValues \cup ObjectValues}

\* one body of each class, for the runs with several requests in flight
SampleBodies ==
    {MalformedBody,
     RawBody(TRUE, TRUE, None),
     RawBody(TRUE, TRUE, ObjectBody(Absent, Absent)),
     RawBody(TRUE, TRUE, ObjectBody(StrV("ab"), Absent)),
     RawBody(TRUE, TRUE, ObjectBody(DetalhesOfLen(1), Absent)),
     RawBody(TRUE, TRUE, ObjectBody(DetalhesOfLen(2), Absent))}

NoBody == RawBody(FALSE, FALSE, None)

(* --------------------------- upstream replies -------------------------- *)
\* The texts a reply part can carry, and what json.loads makes of each.
TextEmpty == ""
TextProse == "Era uma vez"
TextList == "[]"
TextNumber == "5"
TextNull == "null"
TextEmptyObj == "{}"
TextOnlyTitulo == "{\"titulo\":\"X\"}"
TextOnlyConteudo == "{\"conteudo\":\"Y\"}"
TextOnlyError == "{\"error\":\"e\"}"
TextStory == "{\"titulo\":\"X\",\"conteudo\":\"Y\"}"
TextStoryExtra == "{\"titulo\":\"X\",\"conteudo\":\"Y\",\"extra\":\"z\"}"
TextStoryError == "{\"titulo\":\"X\",\"conteudo\":\"Y\",\"error\":\"e\"}"
TextStoryTypes == "{\"titulo\":1,\"conteudo\":null}"

Texts ==
    {TextEmpty, TextProse, TextList, TextNumber, TextNull, TextEmptyObj, TextOnlyTitulo,
     TextOnlyConteudo, TextOnlyError, TextStory, TextStoryExtra, TextStoryError,
     TextStoryTypes}

JSONDecodeError(m) == Exc("JSONDecodeError", m)

\* json.loads(text), line 88
json_loads(text) ==
    CASE text = TextEmpty -> Raises(JSONDecodeError("Expecting value: line 1 column 1 (char 0)"))
      [] text = TextProse -> Raises(JSONDecodeError("Expecting value: line 1 column 1 (char 0)"))
      [] text = TextList -> Returns(Scalar(ListV(<<>>)))
      [] text = TextNumber -> Returns(Scalar(NumV("5")))
      [] text = TextNull -> Returns(None)
      [] text = TextEmptyObj -> Returns(Obj(NoFields))
      [] text = TextOnlyTitulo -> Returns(Obj([NoFields EXCEPT !["titulo"] = StrV("X")]))
      [] text = TextOnlyConteudo -> Returns(Obj([NoFields EXCEPT !["conteudo"] = StrV("Y")]))
      [] text = TextOnlyError -> Returns(Obj([NoFields EXCEPT !["error"] = StrV("e")]))
      [] text = TextStory ->
            Returns(Obj([NoFields EXCEPT !["titulo"] = StrV("X"), !["conteudo"] = StrV("Y")]))
      [] text = TextStoryExtra ->
            Returns(Obj([NoFields EXCEPT !["titulo"] = StrV("X"), !["conteudo"] = StrV("Y"),
                                         !["extra"] = StrV("z")]))
      [] text = TextStoryError ->
            Returns(Obj([NoFields EXCEPT !["titulo"] = StrV("X"), !["conteudo"] = StrV("Y"),
                                         !["error"] = StrV("e")]))
      [] text = TextStoryTypes ->
            Returns(Obj([NoFields EXCEPT !["titulo"] = NumV("1"), !["conteudo"] = NullV]))
      [] OTHER -> Raises(JSONDecodeError("Expecting value: line 1 column 1 (char 0)"))

\* a part of a candidate's content; text_is_str is FALSE for a part whose
\* text attribute is None
Part(t) == [text_is_str |-> TRUE, text |-> t]
PartNoText == [text_is_str |-> FALSE, text |-> ""]
Candidate(c, ps) == [has_content |-> c, parts |-> ps]

FirstParts == {Part(t) : t \in Texts} \cup {PartNoText}
LaterParts == {Part(TextStory), Part(TextProse)}
PartsLists ==
    {<<>>} \cup
    UNION {{<<p>> \o t : p \in FirstParts, t \in [1..(n - 1) -> LaterParts]} : n \in 1..MaxParts}

FirstCandidates == {Candidate(FALSE, <<>>)} \cup {Candidate(TRUE, ps) : ps \in PartsLists}
LaterCandidates == {Candidate(FALSE, <<>>), Candidate(TRUE, <<Part(TextStory)>>)}
CandidateLists ==
    {<<>>} \cup
    UNION {{<<c>> \o t : c \in FirstCandidates, t \in [1..(n - 1) -> LaterCandidates]} :
              n \in 1..MaxCandidates}

\* what gemini_model.generate_content does: it returns a reply or raises
Reply(cs) == [exc |-> NoExc, candidates |-> cs]
Failure(e) == [exc |-> e, candidates |-> <<>>]
NoOutcome == Reply(<<>>)

UpstreamErrors ==
    {Exc("ServiceUnavailable", "503 The service is currently unavailable."),
     Exc("PermissionDenied", "403 API key not valid."),
     JSONDecodeError("Expecting value: line 1 column 1 (char 0)")}

Outcomes == {Failure(e) : e \in UpstreamErrors} \cup {Reply(cs) : cs \in CandidateLists}

SampleOutcomes ==
    {Failure(Exc("ServiceUnavailable", "503 The service is currently unavailable.")),
     Reply(<<>>),
     Reply(<<Candidate(TRUE, <<Part(TextProse)>>)>>),
     Reply(<<Candidate(TRUE, <<Part(TextOnlyTitulo)>>)>>),
     Reply(<<Candidate(TRUE, <<Part(TextStory)>>)>>),
     Reply(<<Candidate(TRUE, <<Part(TextStoryError)>>)>>)}


(* ------------------------------ messages ------------------------------- *)
MsgMissing == "Título sugerido e prompt principal são necessários."
MsgEmpty == "Resposta da IA inválida ou vazia."
MsgUnexpected == "A IA retornou um formato de dados inesperado."
MsgInvalidJSON == "Erro ao processar resposta da IA (JSON inválido): "
MsgComm == "Erro na comunicação com a IA: "
MsgInvalidRequest == "Requisição JSON inválida. Esperava um dicionário."
MsgNotList == "O campo \"detalhes\" deve ser uma lista."
MsgTooFew == "São necessários um título sugerido e o prompt da história."
MsgInternal == "Erro interno no servidor: "

\* the dict {"error": msg}
ErrorRecord(msg) == Obj([NoFields EXCEPT !["error"] = StrV(msg)])

(* --------------------------- criar_historia ---------------------------- *)
\* len(detalhes_lista) < 2, line 38
criar_too_few(detalhes_lista) == PyLen(detalhes_lista).n < 2

\* the prompt of lines 41-65: the template with detalhes_lista[0] and [1] in it
build_prompt(detalhes_lista) == <<PyIndex(detalhes_lista, 0), PyIndex(detalhes_lista, 1)>>

\* the test of line 81 (and of lines 73 and 75): candidates, content and parts
\* of the first candidate are all truthy
has_first_part(response) ==
    /\ response.candidates # <<>>
    /\ response.candidates[1].has_content
    /\ response.candidates[1].parts # <<>>

\* the test of line 91 that accepts the parsed reply
shape_ok_TituloOnly(response_data) == IsDict(response_data) /\ HasKey(response_data, "titulo")
shape_ok(response_data) ==
    /\ IsDict(response_data)
    /\ HasKey(response_data, "titulo")
    /\ HasKey(response_data, "conteudo")

\* The try block, lines 68-95, once generate_content has returned or raised:
\* the value returned or the exception raised in it, and whether line 85 had
\* bound json_text_from_gemini by then.
criar_try(outcome) ==
    IF Raised(outcome)
    THEN [exc |-> outcome.exc, value |-> None, text_bound |-> FALSE]
    ELSE IF has_first_part(outcome) /\ ~outcome.candidates[1].parts[1].text_is_str
    THEN \* line 76 slices the text: None[:200]
         [exc |-> Exc("TypeError", "'NoneType' object is not subscriptable"),
          value |-> None, text_bound |-> FALSE]
    ELSE IF ~has_first_part(outcome)
    THEN [exc |-> NoExc, value |-> ErrorRecord(MsgEmpty), text_bound |-> FALSE]
    ELSE LET json_text_from_gemini == outcome.candidates[1].parts[1].text
             parsed == json_loads(json_text_from_gemini)
         IN  IF Raised(parsed)
             THEN [exc |-> parsed.exc, value |-> None, text_bound |-> TRUE]
             ELSE IF ~shape_ok(parsed.value)
             THEN [exc |-> NoExc, value |-> ErrorRecord(MsgUnexpected), text_bound |-> TRUE]
             ELSE [exc |-> NoExc, value |-> parsed.value, text_bound |-> TRUE]

\* The except clauses, lines 97-107. The JSONDecodeError clause prints
\* json_text_from_gemini (line 99): when the exception came before line 85
\* the name is unbound and the clause itself raises UnboundLocalError, which
\* no clause of this try statement catches.
criar_except(t) ==
    IF ~Raised(t) THEN Returns(t.value)
    ELSE IF t.exc.type = "JSONDecodeError"
    THEN IF t.text_bound
         THEN Returns(ErrorRecord(MsgInvalidJSON \o t.exc.msg))
         ELSE Raises(Exc("UnboundLocalError",
                "cannot access local variable 'json_text_from_gemini' where it is not associated with a value"))
    ELSE Returns(ErrorRecord(MsgComm \o t.exc.msg))

\* criar_historia(detalhes_lista), with the outcome of its upstream call
criar_historia(detalhes_lista, outcome) ==
    IF criar_too_few(detalhes_lista)
    THEN Returns(ErrorRecord(MsgMissing))
    ELSE criar_except(criar_try(outcome))

(* ---------------------------- make_historia ---------------------------- *)
Response(s, b) == [status |-> s, body |-> b]
NoResponse == Response(0, None)

\* request.get_json(), line 113. Malformed JSON raises BadRequest. A body
\* whose Content-Type is not JSON raises UnsupportedMediaType in Flask 2.1
\* and later and returns None before (mime_raises tells which Flask runs).
get_json(body, mime_raises) ==
    IF ~body.json_mime
    THEN IF mime_raises
         THEN Raises(Exc("UnsupportedMediaType",
                "415 Unsupported Media Type: Did not attempt to load JSON data because the request Content-Type was not 'application/json'."))
         ELSE Returns(None)
    ELSE IF ~body.wellformed
    THEN Raises(Exc("BadRequest",
                "400 Bad Request: The browser (or proxy) sent a request that this server could not understand."))
    ELSE Returns(body.value)

\* dados.get('detalhes', []), line 118
dados_get(dados) ==
    IF HasKey(dados, "detalhes") THEN dados.fields["detalhes"] ELSE ListV(<<>>)

\* the except clause of lines 136-141
internal_error_As400(e) == Response(400, ErrorRecord(MsgInternal \o e.msg))
internal_error(e) == Response(500, ErrorRecord(MsgInternal \o e.msg))

Respond(resp) == [tag |-> "respond", response |-> resp, detalhes |-> Absent]
Criar(d) == [tag |-> "criar", response |-> NoResponse, detalhes |-> d]

\* make_historia up to the call of criar_historia, lines 112-128: the response
\* it returns, or the list it passes on
make_historia_entry(body, mime_raises) ==
    LET got == get_json(body, mime_raises)
        dados == got.value
        detalhes == dados_get(dados)
        n == PyLen(detalhes)
    IN  IF Raised(got) THEN Respond(internal_error(got.exc))
        ELSE IF ~Truthy(dados) \/ ~IsDict(dados)
        THEN Respond(Response(400, ErrorRecord(MsgInvalidRequest)))
        ELSE IF ~IsList(detalhes)
        THEN Respond(Response(400, ErrorRecord(MsgNotList)))
        ELSE IF Raised(n) THEN Respond(internal_error(n.exc))
        ELSE IF n.n < 2
        THEN Respond(Response(400, ErrorRecord(MsgTooFew)))
        ELSE Criar(detalhes)

\* make_historia after criar_historia, lines 128-141; historia is what the
\* call returned or raised
make_historia_exit(historia) ==
    IF Raised(historia) THEN internal_error(historia.exc)
    ELSE IF HasKey(historia.value, "error")
    THEN Response(400, historia.value)
    ELSE Response(200, historia.value)

(* ------------------------------- state --------------------------------- *)
VARIABLES
    mime_raises,      \* the Flask in use raises on a non-JSON Content-Type
    pc,               \* per request: "idle", "received", "calling", "done"
    body,             \* per request: the body received
    detalhes_lista,   \* per request: the argument of criar_historia
    prompt,           \* per request: the title and idea put in the prompt sent
    calls,            \* per request: invocations of generate_content
    upstream,         \* per request: what generate_content returned or raised
    historia_gerada,  \* per request: what criar_historia returned or raised
    response,         \* per request: the response sent
    sent              \* per request: number of responses sent

vars ==
    <<mime_raises, pc, body, detalhes_lista, prompt, calls, upstream, historia_gerada, response,
      sent>>

NoHistoria == Returns(None)

Init ==
    /\ mime_raises \in BOOLEAN
    /\ pc = [r \in Requests |-> "idle"]
    /\ body = [r \in Requests |-> NoBody]
    /\ detalhes_lista = [r \in Requests |-> Absent]
    /\ prompt = [r \in Requests |-> <<>>]
    /\ calls = [r \in Requests |-> 0]
    /\ upstream = [r \in Requests |-> NoOutcome]
    /\ historia_gerada = [r \in Requests |-> NoHistoria]
    /\ response = [r \in Requests |-> NoResponse]
    /\ sent = [r \in Requests |-> 0]

\* a client posts body b to /historia
Receive(r, b) ==
    /\ pc[r] = "idle"
    /\ pc' = [pc EXCEPT ![r] = "received"]
    /\ body' = [body EXCEPT ![r] = b]
    /\ UNCHANGED <<mime_raises, detalhes_lista, prompt, calls, upstream, historia_gerada,
                   response, sent>>

\* make_historia runs from line 112 until it returns a response or until
\* criar_historia issues generate_content (line 69)
Handle(r) ==
    /\ pc[r] = "received"
    /\ LET e == make_historia_entry(body[r], mime_raises)
       IN  IF e.tag = "respond"
           THEN /\ response' = [response EXCEPT ![r] = e.response]
                /\ sent' = [sent EXCEPT ![r] = @ + 1]
                /\ pc' = [pc EXCEPT ![r] = "done"]
                /\ UNCHANGED <<detalhes_lista, prompt, calls, historia_gerada>>
           ELSE IF criar_too_few(e.detalhes)
           THEN LET h == criar_historia(e.detalhes, NoOutcome)
                IN  /\ detalhes_lista' = [detalhes_lista EXCEPT ![r] = e.detalhes]
                    /\ historia_gerada' = [historia_gerada EXCEPT ![r] = h]
                    /\ response' = [response EXCEPT ![r] = make_historia_exit(h)]
                    /\ sent' = [sent EXCEPT ![r] = @ + 1]
                    /\ pc' = [pc EXCEPT ![r] = "done"]
                    /\ UNCHANGED <<prompt, calls>>
           ELSE /\ detalhes_lista' = [detalhes_lista EXCEPT ![r] = e.detalhes]
                /\ prompt' = [prompt EXCEPT ![r] = build_prompt(e.detalhes)]
                /\ calls' = [calls EXCEPT ![r] = @ + 1]
                /\ pc' = [pc EXCEPT ![r] = "calling"]
                /\ UNCHANGED <<historia_gerada, response, sent>>
    /\ UNCHANGED <<mime_raises, body, upstream>>

\* generate_content returns or raises (outcome o); criar_historia runs to its
\* end and make_historia answers
UpstreamReturns(r, o) ==
    /\ pc[r] = "calling"
    /\ LET h == criar_historia(detalhes_lista[r], o)
       IN  /\ upstream' = [upstream EXCEPT ![r] = o]
           /\ historia_gerada' = [historia_gerada EXCEPT ![r] = h]
           /\ response' = [response EXCEPT ![r] = make_historia_exit(h)]
           /\ sent' = [sent EXCEPT ![r] = @ + 1]
           /\ pc' = [pc EXCEPT ![r] = "done"]
    /\ UNCHANGED <<mime_raises, body, detalhes_lista, prompt, calls>>

\* the request is over: its locals are discarded and the slot serves the next one
Finish(r) ==
    /\ pc[r] = "done"
    /\ pc' = [pc EXCEPT ![r] = "idle"]
    /\ body' = [body EXCEPT ![r] = NoBody]
    /\ detalhes_lista' = [detalhes_lista EXCEPT ![r] = Absent]
    /\ prompt' = [prompt EXCEPT ![r] = <<>>]
    /\ calls' = [calls EXCEPT ![r] = 0]
    /\ upstream' = [upstream EXCEPT ![r] = NoOutcome]
    /\ historia_gerada' = [historia_gerada EXCEPT ![r] = NoHistoria]
    /\ response' = [response EXCEPT ![r] = NoResponse]
    /\ sent' = [sent EXCEPT ![r] = 0]
    /\ UNCHANGED mime_raises

OthersIdle(r) == \A q \in Requests \ {r} : pc[q] = "idle"

\* One request at a time, over every body and every upstream outcome.
Next ==
    \/ \E r \in Requests, b \in Bodies : OthersIdle(r) /\ Receive(r, b)
    \/ \E r \in Requests : Handle(r)
    \/ \E r \in Requests, o \in Outcomes : UpstreamReturns(r, o)
    \/ \E r \in Requests : Finish(r)

Spec == Init /\ [][Next]_vars

\* The same, and a request that was received is handled and an upstream call
\* that was issued returns or raises.
FairSpec ==
    /\ Init
    /\ [][Next]_vars
    /\ \A r \in Requests : WF_vars(Handle(r))
    /\ \A r \in Requests :
          WF_vars(pc[r] = "calling" /\ \E o \in Outcomes : UpstreamReturns(r, o))

\* Several requests in flight, interleaved in every order, over one body and
\* one upstream outcome of each class.
ConcNext ==
    \/ \E r \in Requests, b \in SampleBodies : Receive(r, b)
    \/ \E r \in Requests : Handle(r)
    \/ \E r \in Requests, o \in SampleOutcomes : UpstreamReturns(r, o)
    \/ \E r \in Requests : Finish(r)

ConcSpec == Init /\ [][ConcNext]_vars


(* ------------------------------ properties ----------------------------- *)
Done(r) == pc[r] = "done"

\* the body is JSON text, sent as JSON, that denotes an object
BodyIsObject(b) == b.json_mime /\ b.wellformed /\ b.value.kind = "object"
DetalhesOf(b) == b.value.fields["detalhes"]
\* the body passes the four input checks of the endpoint
BodyIsValid(b) ==
    /\ BodyIsObject(b)
    /\ DetalhesOf(b).kind = "list"
    /\ Len(DetalhesOf(b).items) >= 2

KeysOf(d) == {k \in Keys : d.fields[k].kind # "absent"}
\* a JSON object with the single field 'error', a string
IsErrorRecord(d) ==
    /\ d.kind = "object"
    /\ KeysOf(d) = {"error"}
    /\ d.fields["error"].kind = "string"

\* the upstream call of r returned a reply whose first candidate has a first part
Replied(r) == Done(r) /\ calls[r] = 1 /\ ~Raised(upstream[r])
FirstPart(o) == o.candidates[1].parts[1]
HasFirstPart(o) ==
    /\ Len(o.candidates) >= 1
    /\ o.candidates[1].has_content
    /\ Len(o.candidates[1].parts) >= 1
\* the reply with everything but the first part of the first candidate removed
FirstPartOnly(o) ==
    IF HasFirstPart(o)
    THEN Reply(<<Candidate(TRUE, <<FirstPart(o)>>)>>)
    ELSE Reply(<<>>)

\* C1: a body that does not parse as JSON, or parses to a value that is not
\* an object, is answered with 400 and an {error} body, never 500 or 200.
C1_NonObjectBodyIs400 ==
    \A r \in Requests :
        (Done(r) /\ ~BodyIsObject(body[r])) =>
            (response[r].status = 400 /\ HasKey(response[r].body, "error"))

\* C2: an object body in which 'detalhes' is absent, is not a list, or is a
\* list of fewer than 2 elements is answered with 400 and a body that has an
\* 'error' key.
C2_BadDetalhesIs400 ==
    \A r \in Requests :
        (Done(r) /\ BodyIsObject(body[r]) /\ ~BodyIsValid(body[r])) =>
            (response[r].status = 400 /\ HasKey(response[r].body, "error"))

C2_Witness ==
    \E r \in Requests :
        /\ Done(r)
        /\ BodyIsObject(body[r])
        /\ DetalhesOf(body[r]).kind = "list"
        /\ Len(DetalhesOf(body[r]).items) = 1
        /\ response[r].status = 400

\* C3: for a valid request, a reply whose first part parses to an object with
\* both 'titulo' and 'conteudo' is answered with 200 and exactly that object.
C3_StoryIs200Unchanged ==
    \A r \in Requests :
        (/\ Replied(r)
         /\ BodyIsValid(body[r])
         /\ HasFirstPart(upstream[r])
         /\ FirstPart(upstream[r]).text_is_str
         /\ ~Raised(json_loads(FirstPart(upstream[r]).text))
         /\ json_loads(FirstPart(upstream[r]).text).value.kind = "object"
         /\ {"titulo", "conteudo"} \subseteq KeysOf(json_loads(FirstPart(upstream[r]).text).value))
        => (/\ response[r].status = 200
            /\ response[r].body = json_loads(FirstPart(upstream[r]).text).value)

\* C4: every 200 response has both 'titulo' and 'conteudo', each a string.
C4_StoryFieldsAreStrings ==
    \A r \in Requests :
        (Done(r) /\ response[r].status = 200) =>
            (/\ response[r].body.fields["titulo"].kind = "string"
             /\ response[r].body.fields["conteudo"].kind = "string")

\* C5: every response that is not 200 is 400 or 500 and its body is an object
\* with exactly one field, 'error', a string.
C5_FailureIsErrorRecord ==
    \A r \in Requests :
        (Done(r) /\ response[r].status # 200) =>
            (response[r].status \in {400, 500} /\ IsErrorRecord(response[r].body))

\* C6: for a valid request the reply is classified in order: no first part of
\* the first candidate gives the empty-response error; else a first-part text
\* that is not JSON gives the invalid-JSON error; else a parsed value that is
\* not an object with 'titulo' and 'conteudo' gives the unexpected-format
\* error; each with status 400. Only the first part of the first candidate
\* decides the response.
C6_ReplyClassification ==
    \A r \in Requests :
        Replied(r) =>
            LET o == upstream[r]
                parsed == json_loads(FirstPart(o).text)
            IN  /\ ~HasFirstPart(o) => response[r] = Response(400, ErrorRecord(MsgEmpty))
                /\ (HasFirstPart(o) /\ FirstPart(o).text_is_str /\ Raised(parsed)) =>
                        response[r] = Response(400, ErrorRecord(MsgInvalidJSON \o parsed.exc.msg))
                /\ (/\ HasFirstPart(o) /\ FirstPart(o).text_is_str /\ ~Raised(parsed)
                    /\ ~(parsed.value.kind = "object"
                         /\ {"titulo", "conteudo"} \subseteq KeysOf(parsed.value))) =>
                        response[r] = Response(400, ErrorRecord(MsgUnexpected))
                /\ response[r] =
                       make_historia_exit(criar_historia(detalhes_lista[r], FirstPartOnly(o)))

C6_Witness ==
    \E r \in Requests :
        /\ Replied(r)
        /\ Len(upstream[r].candidates) = 2
        /\ ~upstream[r].candidates[1].has_content
        /\ upstream[r].candidates[2] = Candidate(TRUE, <<Part(TextStory)>>)
        /\ response[r] = Response(400, ErrorRecord(MsgEmpty))

\* C7: criar_historia lets no exception cross its boundary: every failure of
\* the upstream call comes back as an {error} record, and the endpoint
\* answers it with 400, not 500.
C7_UpstreamFailureIsErrorRecord ==
    \A r \in Requests :
        (Done(r) /\ calls[r] = 1) =>
            (/\ ~Raised(historia_gerada[r])
             /\ Raised(upstream[r]) =>
                    (HasKey(historia_gerada[r].value, "error") /\ response[r].status = 400))

\* an exception reached the except clause of make_historia
Uncaught(r) ==
    \/ body[r].json_mime /\ ~body[r].wellformed
    \/ ~body[r].json_mime /\ mime_raises
    \/ Raised(historia_gerada[r])
UncaughtMsg(r) ==
    IF Raised(historia_gerada[r]) THEN historia_gerada[r].exc.msg
    ELSE get_json(body[r], mime_raises).exc.msg

\* C8: every request received ends with exactly one response, of status 200,
\* 400 or 500; an exception that was not turned into an error record is
\* answered with 500 and {error: 'Erro interno no servidor: <message>'}.
C8_AlwaysAnswered ==
    /\ \A r \in Requests : [](pc[r] = "received" => <>(pc[r] = "done"))
    /\ [](\A r \in Requests :
            /\ sent[r] = (IF Done(r) THEN 1 ELSE 0)
            /\ Done(r) =>
                  /\ response[r].status \in {200, 400, 500}
                  /\ Uncaught(r) =>
                        response[r] = Response(500, ErrorRecord(MsgInternal \o UncaughtMsg(r))))

C8_Witness ==
    \E r \in Requests :
        /\ Done(r)
        /\ Raised(historia_gerada[r])
        /\ response[r].status = 500
        /\ sent[r] = 1

\* C9: generate_content is invoked at most once per request and only for a
\* body that passed the four input checks; a rejected request causes no
\* upstream call; with several requests in flight, requests with the same
\* body and the same upstream outcome get the same response.
C9_CallOnlyAfterValidation ==
    /\ \A r \in Requests :
          /\ calls[r] <= 1
          /\ calls[r] = 1 => BodyIsValid(body[r])
          /\ pc[r] = "calling" => calls[r] = 1
          /\ (Done(r) /\ ~BodyIsValid(body[r])) => (calls[r] = 0 /\ upstream[r] = NoOutcome)
    /\ \A r, q \in Requests :
          (Done(r) /\ Done(q) /\ body[r] = body[q] /\ upstream[r] = upstream[q]) =>
              response[r] = response[q]

C9_Witness ==
    \E r, q \in Requests :
        /\ r # q
        /\ pc[r] = "calling"
        /\ Done(q)
        /\ ~BodyIsValid(body[q])
        /\ calls[q] = 0
        /\ response[q].status = 400

\* C10: an object body without the key 'detalhes' (the empty object too) is
\* rejected by the length check, with its error and status 400.
C10_NoDetalhesFailsLengthCheck ==
    \A r \in Requests :
        (Done(r) /\ BodyIsObject(body[r]) /\ DetalhesOf(body[r]).kind = "absent") =>
            response[r] = Response(400, ErrorRecord(MsgTooFew))

====
